---- MODULE Spec2Model ----
(***************************************************************************)
(* stockx.py: the StockX scraper class and main().                         *)
(*                                                                         *)
(* The class body (lines 21-39) binds the names api, sales_api, headers    *)
(* and _scraped_products to properties that have a getter and no setter,   *)
(* and each getter returns the attribute of its own name.  In Python 3     *)
(* (the f-strings of lines 119-151 exclude Python 2) a property is a data  *)
(* descriptor: it takes precedence over the instance's __dict__, writing   *)
(* through one without a setter raises AttributeError, and a getter that   *)
(* reads its own name recurses until RecursionError.  The model keeps      *)
(* these semantics in GetAttr and SetAttr; every method is translated      *)
(* statement by statement on top of them.                                  *)
(*                                                                         *)
(* Text is modelled as a sequence of atoms (pieces of text that contain    *)
(* no separator); split() and int() work on these sequences.               *)
(***************************************************************************)
EXTENDS Integers, Sequences, FiniteSets, TLC

\* ------------------------------------------------------------- bounds
\* Largest page number a pagination field may embed.
MaxPage == 2
\* Longest list of urls / product ids a caller hands to a fetch.
MaxUrls == 2
\* Longest "Products" or "ProductActivity" list in one response.
MaxRows == 2
\* Longest pagination text, in atoms.
MaxStr == 3
\* Most documents an accumulator holds before a caller resets it.
MaxDocs == 2

\* ------------------------------------------------------------- text
RECURSIVE Split(_, _)
\* str.split(sep): the pieces between the separators, at least one piece.
Split(s, sep) ==
  IF s = << >> THEN << << >> >>
  ELSE LET rest == Split(Tail(s), sep)
       IN IF Head(s) = sep
          THEN << << >> >> \o rest
          ELSE << (<< Head(s) >> \o rest[1]) >> \o Tail(rest)

Digits == << "0", "1", "2", "3", "4", "5", "6", "7", "8", "9" >>

IsDigit(a) == \E d \in 1..10 : Digits[d] = a

DigitVal(a) == (CHOOSE d \in 1..10 : Digits[d] = a) - 1

RECURSIVE IntVal(_, _)
IntVal(s, acc) ==
  IF s = << >> THEN acc ELSE IntVal(Tail(s), 10 * acc + DigitVal(Head(s)))

\* int(text): the decimal value, or ValueError for the empty text and for
\* text holding anything but digits.
ParseInt(s) ==
  IF s # << >> /\ \A i \in 1..Len(s) : IsDigit(s[i])
  THEN [exc |-> "none", val |-> IntVal(s, 0)]
  ELSE [exc |-> "ValueError", val |-> 0]

RECURSIVE Str(_)
\* str(i) for i >= 0, as used by the f-strings.
Str(i) == IF i < 10 THEN << Digits[i + 1] >> ELSE Str(i \div 10) \o << Digits[(i % 10) + 1] >>

\* ------------------------------------------------------------- values
API == "https://stockx.com/api/browse?"
SALES_API == "https://stockx.com/api/products/"
None == "None"

Tags == { "air jordan", "yeezy" }
Categories == { "sneakers" }
HeaderValues == { "user-agent" }

\* Product ids as the API may send them: text, possibly holding a "/".
ProductIds == { << "a" >>, << "a", "/", "b" >> }
\* pandas' NaN in the productId column (no product id is the empty text).
NaN == << >>
Titles == { "t1" }

\* Position of the product id among the "/"-separated pieces of a sales url.
ProductIdSegment == 5

RECURSIVE SeqsUpTo(_, _)
SeqsUpTo(S, n) ==
  IF n = 0 THEN { << >> }
  ELSE LET shorter == SeqsUpTo(S, n - 1)
       IN shorter \cup { Append(s, x) : s \in { t \in shorter : Len(t) = n - 1 }, x \in S }

\* What the listing endpoint may put in Pagination.lastPage: any short text
\* over these atoms whose page number, when it parses, is at most MaxPage.
LastPageAtoms == { "page=", "&", "0", "1", "2", "x" }

PageOf(text) ==
  LET parts == Split(text, "page=")
  IN IF Len(parts) < 2 THEN [exc |-> "IndexError", val |-> 0]
     ELSE ParseInt(Split(parts[2], "&")[1])

LastPageTexts ==
  { t \in SeqsUpTo(LastPageAtoms, MaxStr) :
      PageOf(t).exc = "none" => PageOf(t).val <= MaxPage }

\* Responses of the three requests.  status: "neterr" (requests.get raises),
\* "badjson" (the body is no JSON), "nokey" (JSON without the key the caller
\* reads), "ok".
ListingResponses ==
  { [status |-> s, lastPage |-> << >>] : s \in { "neterr", "badjson", "nokey" } }
  \cup { [status |-> "ok", lastPage |-> t] : t \in LastPageTexts }

ProductEntries == { [id |-> p, title |-> t] : p \in ProductIds, t \in Titles }

PageResponses ==
  { [status |-> s, Products |-> << >>] : s \in { "neterr", "badjson", "nokey" } }
  \cup { [status |-> "ok", Products |-> ps] : ps \in SeqsUpTo(ProductEntries, MaxRows) }

ActivityEntries ==
  { [productId |-> p, v |-> v] : p \in { NaN, << "other" >> }, v \in { "s1", "s2" } }

SalesResponses ==
  { [status |-> s, ProductActivity |-> << >>] : s \in { "neterr", "badjson", "nokey" } }
  \cup { [status |-> "ok", ProductActivity |-> es] : es \in SeqsUpTo(ActivityEntries, MaxRows) }

\* ------------------------------------------------------------- attributes
\* The names the class body binds to a getter-only property whose getter
\* returns self.<the same name>.
PropertyNames == { "api", "sales_api", "headers", "_scraped_products" }

\* An instance as object.__new__ leaves it: nothing in its __dict__.
NewInstance ==
  [ set |-> {}, api |-> None, sales_api |-> None, headers |-> None,
    _scraped_products |-> << >>, _scraped_sales_history |-> << >> ]

\* self.name read, under the class namespace klass.
GetAttr(klass, self, name) ==
  IF name \in klass THEN "RecursionError"
  ELSE IF name \notin self.set THEN "AttributeError"
  ELSE "none"

\* self.name = value, under the class namespace klass.
SetAttr(klass, self, name) == IF name \in klass THEN "AttributeError" ELSE "none"

\* The instance with name bound to value in its __dict__.
Store(self, name, value) ==
  [ [ self EXCEPT ![name] = value ] EXCEPT !.set = @ \cup { name } ]

\* The statement self.name = value: the exception it raises ("none" when it
\* completes) and the instance it leaves.
Assign(klass, self, name, value) ==
  IF SetAttr(klass, self, name) = "none"
  THEN [exc |-> "none", self |-> Store(self, name, value)]
  ELSE [exc |-> SetAttr(klass, self, name), self |-> self]

\* ------------------------------------------------------------- methods
\* StockX.__init__: five assignments, abandoned at the first that raises.
__init__(klass, self) ==
  LET a1 == Assign(klass, self, "api", API)
      a2 == Assign(klass, a1.self, "sales_api", SALES_API)
      a3 == Assign(klass, a2.self, "headers", None)
      a4 == Assign(klass, a3.self, "_scraped_products", << >>)
      a5 == Assign(klass, a4.self, "_scraped_sales_history", << >>)
  IN IF a1.exc # "none" THEN a1
     ELSE IF a2.exc # "none" THEN a2
     ELSE IF a3.exc # "none" THEN a3
     ELSE IF a4.exc # "none" THEN a4
     ELSE a5

\* The setter registered under the name set_headers: self.headers = headers.
set_headers(klass, self, headers) == Assign(klass, self, "headers", headers)

\* StockX.reset_scrape: two assignments.
reset_scrape(klass, self) ==
  LET a1 == Assign(klass, self, "_scraped_products", << >>)
  IN IF a1.exc # "none" THEN a1
     ELSE Assign(klass, a1.self, "_scraped_sales_history", << >>)

\* f'{self.api}_tags={tag}&productCategory={category}&page={i}'
PageUrl(api, tag, category, i) ==
  << api, "_tags=", tag, "&productCategory=", category, "&page=" >> \o Str(i)

\* f'https://stockx.com/api/products/{product}/activity?state=480&...&page=1'
SalesUrl(product) ==
  << "https:", "/", "/", "stockx.com", "/", "api", "/", "products", "/" >>
  \o product
  \o << "/", "activity?state=480&currency=USD&limit=10000&page=1" >>

\* The exception, if any, that the arguments of a handler's requests.get
\* raise before the request is sent (headers=self.headers).
BeforeRequest(klass, self) == GetAttr(klass, self, "headers")

\* What json.loads(r.text) and the request before it raise for a response.
Load(r) ==
  IF r.status = "neterr" THEN "ConnectionError"
  ELSE IF r.status = "badjson" THEN "JSONDecodeError"
  ELSE "none"

\* StockX._scrape: request, parse, append the parsed document.
_scrape(klass, self, url, r) ==
  IF BeforeRequest(klass, self) # "none"
  THEN [exc |-> BeforeRequest(klass, self), self |-> self]
  ELSE IF Load(r) # "none" THEN [exc |-> Load(r), self |-> self]
  ELSE IF GetAttr(klass, self, "_scraped_products") # "none"
  THEN [exc |-> GetAttr(klass, self, "_scraped_products"), self |-> self]
  ELSE [exc |-> "none",
        self |-> [ self EXCEPT !._scraped_products =
                     Append(@, [haskey |-> r.status = "ok", Products |-> r.Products]) ]]

\* StockX._scrape_sales_history: request, parse, write the url's product id
\* into the first activity entry, append the document.
_scrape_sales_history(klass, self, url, r) ==
  IF BeforeRequest(klass, self) # "none"
  THEN [exc |-> BeforeRequest(klass, self), self |-> self]
  ELSE IF Load(r) # "none" THEN [exc |-> Load(r), self |-> self]
  ELSE IF Len(Split(url, "/")) < ProductIdSegment + 1 THEN [exc |-> "IndexError", self |-> self]
  ELSE IF r.status = "nokey" THEN [exc |-> "KeyError", self |-> self]
  ELSE IF r.ProductActivity = << >> THEN [exc |-> "IndexError", self |-> self]
  ELSE IF GetAttr(klass, self, "_scraped_sales_history") # "none"
  THEN [exc |-> GetAttr(klass, self, "_scraped_sales_history"), self |-> self]
  ELSE [exc |-> "none",
        self |-> [ self EXCEPT !._scraped_sales_history =
                     Append(@, [haskey |-> TRUE,
                                ProductActivity |->
                                  [ r.ProductActivity EXCEPT ![1].productId =
                                      Split(url, "/")[ProductIdSegment + 1] ]]) ]]

\* The exception, if any, that get_category_urls raises before its request
\* is sent: the f-string reads self.api, then headers=self.headers.
BeforeListing(klass, self) ==
  IF GetAttr(klass, self, "api") # "none" THEN GetAttr(klass, self, "api")
  ELSE GetAttr(klass, self, "headers")

\* StockX.get_category_urls for the listing response r.
get_category_urls(klass, self, tag, category, r) ==
  IF BeforeListing(klass, self) # "none"
  THEN [exc |-> BeforeListing(klass, self), urls |-> << >>]
  ELSE IF Load(r) # "none" THEN [exc |-> Load(r), urls |-> << >>]
  ELSE IF r.status = "nokey" THEN [exc |-> "KeyError", urls |-> << >>]
  ELSE IF PageOf(r.lastPage).exc # "none" THEN [exc |-> PageOf(r.lastPage).exc, urls |-> << >>]
  ELSE [exc |-> "none",
        urls |-> [ i \in 1..PageOf(r.lastPage).val |-> PageUrl(self.api, tag, category, i) ]]

RECURSIVE Flatten(_, _)
\* pd.concat of pd.json_normalize(data[key]) over the documents, in order.
Flatten(docs, key) ==
  IF docs = << >> THEN << >> ELSE docs[1][key] \o Flatten(Tail(docs), key)

\* The table of an accumulator: KeyError at the first document without the
\* key, ValueError (pd.concat of no frames) for an empty accumulator.
ToDataframe(klass, self, name, key) ==
  IF GetAttr(klass, self, name) # "none"
  THEN [exc |-> GetAttr(klass, self, name), table |-> << >>]
  ELSE IF \E i \in 1..Len(self[name]) : ~self[name][i].haskey
  THEN [exc |-> "KeyError", table |-> << >>]
  ELSE IF self[name] = << >> THEN [exc |-> "ValueError", table |-> << >>]
  ELSE [exc |-> "none", table |-> Flatten(self[name], key)]

product_info_to_dataframe(klass, self) ==
  ToDataframe(klass, self, "_scraped_products", "Products")

sales_history_to_dataframe(klass, self) ==
  ToDataframe(klass, self, "_scraped_sales_history", "ProductActivity")

\* list(product_info['id']): a table without rows has no id column.
IdColumn(table) ==
  IF table = << >> THEN [exc |-> "KeyError", ids |-> << >>]
  ELSE [exc |-> "none", ids |-> [ i \in 1..Len(table) |-> table[i].id ]]

RECURSIVE FFill(_, _)
\* df['productId'].fillna(method='ffill'): a NaN takes the nearest value
\* above it; NaNs above the first value stay.
FFill(rows, last) ==
  IF rows = << >> THEN << >>
  ELSE LET p == IF rows[1].productId = NaN THEN last ELSE rows[1].productId
       IN << [ rows[1] EXCEPT !.productId = p ] >> \o FFill(Tail(rows), p)

\* The product rows whose id equals productId, in table order.
Matches(product_info, productId) ==
  SelectSeq(product_info, LAMBDA row : row.id = productId)

RECURSIVE Merge(_, _)
\* df.merge(product_info, how='left', left_on='productId', right_on='id').
Merge(df, product_info) ==
  IF df = << >> THEN << >>
  ELSE LET m == Matches(product_info, df[1].productId)
           joined ==
             IF m = << >>
             THEN << [productId |-> df[1].productId, v |-> df[1].v,
                      id |-> NaN, title |-> "NaN"] >>
             ELSE [ i \in 1..Len(m) |->
                      [productId |-> df[1].productId, v |-> df[1].v,
                       id |-> m[i].id, title |-> m[i].title] ]
       IN joined \o Merge(Tail(df), product_info)

\* ------------------------------------------------------------- state
VARIABLES
  klass,          \* the class namespace: the names bound to a getter-only property
  self,           \* the instance: its __dict__ (set: the names it holds)
  driver,         \* who calls: "main" (lines 156-173) or a client of the class
  pc,             \* main's position
  ret,            \* the call that completed last and the exception it raised
  fetch,          \* the pool of get_product_info / get_product_sales_history
  listing,        \* the last listing response get_category_urls received
  category_urls,  \* the caller's result of get_category_urls
  product_info,   \* main's product table
  df,             \* main's joined table
  csv,            \* full_data_latest_with_all_info.csv
  sales_src       \* per sales document accumulated, the url it was fetched from

vars ==
  << klass, self, driver, pc, ret, fetch, listing, category_urls, product_info,
     df, csv, sales_src >>

NoFetch ==
  [active |-> FALSE, handler |-> "none", urls |-> << >>, fut |-> << >>, base |-> 0]

NoListing == [status |-> "none", lastPage |-> << >>, tag |-> "none", category |-> "none"]

\* Number of documents in an accumulator (none while the attribute is unset).
AccLen(s, name) == IF name \in s.set THEN Len(s[name]) ELSE 0

Accumulator(handler) ==
  IF handler = "_scrape" THEN "_scraped_products" ELSE "_scraped_sales_history"

\* The state once the class body has run (class namespace k) and a caller
\* holds an instance: Python allocates the instance (object.__new__) and
\* runs __init__ on it, which leaves the assignments it completed.
InitWith(k) ==
  /\ klass = k
  /\ self = __init__(k, NewInstance).self
  /\ driver \in { "main", "client" }
  /\ pc = "start"
  /\ ret = [op |-> "none", exc |-> "none"]
  /\ fetch = NoFetch
  /\ listing = NoListing
  /\ category_urls = << >>
  /\ product_info = << >>
  /\ df = << >>
  /\ csv = [written |-> FALSE, rows |-> << >>]
  /\ sales_src = << >>

Init == InitWith(PropertyNames)

\* The calling thread is not inside a fetch's with-block.
Free == ~fetch.active

\* Urls a client passes to get_product_info.
ClientUrls == { PageUrl(API, "air jordan", "sneakers", i) : i \in 1..MaxPage }

\* executor.map(handler, urls): one work item per url, all submitted at once.
Submit(handler, urls) ==
  [active |-> TRUE, handler |-> handler, urls |-> urls,
   fut |-> [ i \in 1..Len(urls) |-> "pending" ],
   base |-> AccLen(self, Accumulator(handler))]

\* ------------------------------------------------------------- client calls
\* StockX(): __init__ on a fresh instance; the caller gets it only if
\* __init__ completes.
Create ==
  /\ driver = "client" /\ Free
  /\ LET r == __init__(klass, NewInstance)
     IN /\ self' = IF r.exc = "none" THEN r.self ELSE self
        /\ sales_src' = IF r.exc = "none" THEN << >> ELSE sales_src
        /\ ret' = [op |-> "__init__", exc |-> r.exc]
  /\ UNCHANGED << klass, driver, pc, fetch, listing, category_urls, product_info, df, csv >>

ResetScrape ==
  /\ driver = "client" /\ Free
  /\ LET r == reset_scrape(klass, self)
     IN /\ self' = r.self
        /\ sales_src' = IF r.exc = "none" THEN << >> ELSE sales_src
        /\ ret' = [op |-> "reset_scrape", exc |-> r.exc]
  /\ UNCHANGED << klass, driver, pc, fetch, listing, category_urls, product_info, df, csv >>

\* scraper.set_headers = headers
SetHeaders ==
  /\ driver = "client" /\ Free
  /\ \E h \in HeaderValues :
       LET r == set_headers(klass, self, h)
       IN /\ self' = r.self
          /\ ret' = [op |-> "set_headers", exc |-> r.exc]
  /\ UNCHANGED << klass, driver, pc, fetch, listing, category_urls, product_info, df,
                  csv, sales_src >>

\* get_category_urls(tag, category); the response is the server's choice,
\* made when the request is sent.
CallCategoryUrls(tag, category, op) ==
  IF BeforeListing(klass, self) # "none"
  THEN /\ ret' = [op |-> op, exc |-> BeforeListing(klass, self)]
       /\ listing' = NoListing
       /\ category_urls' = << >>
  ELSE \E r \in ListingResponses :
         LET res == get_category_urls(klass, self, tag, category, r)
         IN /\ ret' = [op |-> op, exc |-> res.exc]
            /\ listing' = [status |-> r.status, lastPage |-> r.lastPage,
                           tag |-> tag, category |-> category]
            /\ category_urls' = res.urls

GetCategoryUrls ==
  /\ driver = "client" /\ Free
  /\ \E tag \in Tags, category \in Categories :
       CallCategoryUrls(tag, category, "get_category_urls")
  /\ UNCHANGED << klass, self, driver, pc, fetch, product_info, df, csv, sales_src >>

\* get_product_info(urls): entering the with-block and submitting the work.
GetProductInfo ==
  /\ driver = "client" /\ Free
  /\ \E urls \in SeqsUpTo(ClientUrls, MaxUrls) :
       /\ AccLen(self, "_scraped_products") + Len(urls) <= MaxDocs
       /\ fetch' = Submit("_scrape", urls)
  /\ UNCHANGED << klass, self, driver, pc, ret, listing, category_urls, product_info,
                  df, csv, sales_src >>

\* get_product_sales_history(products): building the urls, entering the
\* with-block and submitting the work.
GetProductSalesHistory ==
  /\ driver = "client" /\ Free
  /\ \E products \in SeqsUpTo(ProductIds, MaxUrls) :
       /\ AccLen(self, "_scraped_sales_history") + Len(products) <= MaxDocs
       /\ fetch' = Submit("_scrape_sales_history",
                          [ i \in 1..Len(products) |-> SalesUrl(products[i]) ])
  /\ UNCHANGED << klass, self, driver, pc, ret, listing, category_urls, product_info,
                  df, csv, sales_src >>

\* product_info_to_dataframe(): a read of the accumulator; the table it
\* returns is product_info_to_dataframe(klass, self).table of that state.
ProductInfoToDataframe ==
  /\ driver = "client" /\ Free
  /\ LET r == product_info_to_dataframe(klass, self)
     IN ret' = [op |-> "product_info_to_dataframe", exc |-> r.exc]
  /\ UNCHANGED << klass, self, driver, pc, fetch, listing, category_urls, product_info,
                  df, csv, sales_src >>

\* sales_history_to_dataframe(): likewise.
SalesHistoryToDataframe ==
  /\ driver = "client" /\ Free
  /\ LET r == sales_history_to_dataframe(klass, self)
     IN ret' = [op |-> "sales_history_to_dataframe", exc |-> r.exc]
  /\ UNCHANGED << klass, self, driver, pc, fetch, listing, category_urls, product_info,
                  df, csv, sales_src >>

\* ------------------------------------------------------------- the pool
\* Work item i finishing with exception exc ("none": it returned) and
\* leaving the instance s.
Finish(i, exc, s) ==
  /\ self' = s
  /\ fetch' = [ fetch EXCEPT !.fut[i] = IF exc = "none" THEN "ok" ELSE exc ]
  /\ sales_src' = IF exc = "none" /\ fetch.handler = "_scrape_sales_history"
                  THEN Append(sales_src, fetch.urls[i]) ELSE sales_src

\* A pool thread runs the handler on url i, from request to append; the
\* exception it raises stays in the work item's future.
Worker(i) ==
  /\ fetch.fut[i] = "pending"
  /\ IF BeforeRequest(klass, self) # "none"
     THEN Finish(i, BeforeRequest(klass, self), self)
     ELSE IF fetch.handler = "_scrape"
     THEN \E r \in PageResponses :
            LET res == _scrape(klass, self, fetch.urls[i], r)
            IN Finish(i, res.exc, res.self)
     ELSE \E r \in SalesResponses :
            LET res == _scrape_sales_history(klass, self, fetch.urls[i], r)
            IN Finish(i, res.exc, res.self)
  /\ UNCHANGED << klass, driver, pc, ret, listing, category_urls, product_info, df, csv >>

\* The method whose pool runs handler.
Method(handler) ==
  IF handler = "_scrape" THEN "get_product_info" ELSE "get_product_sales_history"

\* Leaving the with-block without waiting for the pool (shutdown(wait=False)).
FetchReturnNoWait ==
  /\ fetch.active
  /\ fetch' = [ fetch EXCEPT !.active = FALSE ]
  /\ ret' = [op |-> Method(fetch.handler), exc |-> "none"]
  /\ UNCHANGED << klass, self, driver, pc, listing, category_urls, product_info, df,
                  csv, sales_src >>

\* Leaving the with-block: shutdown(wait=True) returns once every work item
\* has finished; the iterator executor.map returned is dropped unread, so
\* the fetch returns None whatever the futures hold.
FetchReturn ==
  /\ fetch.active
  /\ \A i \in 1..Len(fetch.fut) : fetch.fut[i] # "pending"
  /\ fetch' = [ fetch EXCEPT !.active = FALSE ]
  /\ ret' = [op |-> Method(fetch.handler), exc |-> "none"]
  /\ UNCHANGED << klass, self, driver, pc, listing, category_urls, product_info, df,
                  csv, sales_src >>

\* ------------------------------------------------------------- main
\* main() stops at the first statement that raises.
Raise(op, exc) ==
  /\ pc' = "raised"
  /\ ret' = [op |-> op, exc |-> exc]

\* Line 157: scraper = StockX()
MainCreate ==
  LET r == __init__(klass, NewInstance)
  IN /\ IF r.exc # "none"
        THEN Raise("__init__", r.exc) /\ UNCHANGED self
        ELSE /\ self' = r.self
             /\ pc' = "resolve"
             /\ ret' = [op |-> "__init__", exc |-> "none"]
     /\ UNCHANGED << fetch, listing, category_urls, product_info, df, csv, sales_src >>

\* Line 159: category_urls = scraper.get_category_urls('air jordan', 'sneakers')
MainResolve ==
  /\ CallCategoryUrls("air jordan", "sneakers", "get_category_urls")
  /\ pc' = IF ret'.exc = "none" THEN "fetch_products" ELSE "raised"
  /\ UNCHANGED << self, fetch, product_info, df, csv, sales_src >>

\* Line 160: scraper.get_product_info(category_urls), up to the submission.
MainFetchProducts ==
  /\ fetch' = Submit("_scrape", category_urls)
  /\ pc' = "project"
  /\ UNCHANGED << self, ret, listing, category_urls, product_info, df, csv, sales_src >>

\* Lines 162-165: the product table, its id column, and
\* scraper.get_product_sales_history(products) up to the submission.
MainProject ==
  LET r == product_info_to_dataframe(klass, self)
      ids == IdColumn(r.table)
  IN /\ IF r.exc # "none"
        THEN Raise("product_info_to_dataframe", r.exc) /\ UNCHANGED << fetch, product_info >>
        ELSE IF ids.exc # "none"
        THEN Raise("product_info['id']", ids.exc) /\ UNCHANGED << fetch, product_info >>
        ELSE /\ product_info' = r.table
             /\ fetch' = Submit("_scrape_sales_history",
                                [ i \in 1..Len(ids.ids) |-> SalesUrl(ids.ids[i]) ])
             /\ pc' = "join"
             /\ ret' = [op |-> "product_info_to_dataframe", exc |-> "none"]
     /\ UNCHANGED << self, listing, category_urls, df, csv, sales_src >>

\* Lines 167-173: the sales table, the forward fill, the left join, the csv.
MainJoin ==
  LET r == sales_history_to_dataframe(klass, self)
  IN /\ IF r.exc # "none"
        THEN Raise("sales_history_to_dataframe", r.exc) /\ UNCHANGED << df, csv >>
        ELSE /\ df' = Merge(FFill(r.table, NaN), product_info)
             /\ csv' = [written |-> TRUE, rows |-> df']
             /\ pc' = "done"
             /\ ret' = [op |-> "to_csv", exc |-> "none"]
     /\ UNCHANGED << self, fetch, listing, category_urls, product_info, sales_src >>

\* main(): its next statement, run by the calling thread.
main ==
  /\ driver = "main" /\ Free
  /\ pc \notin { "done", "raised" }
  /\ IF pc = "start" THEN MainCreate
     ELSE IF pc = "resolve" THEN MainResolve
     ELSE IF pc = "fetch_products" THEN MainFetchProducts
     ELSE IF pc = "project" THEN MainProject
     ELSE MainJoin
  /\ UNCHANGED << klass, driver >>

Next ==
  \/ main
  \/ Create
  \/ ResetScrape
  \/ SetHeaders
  \/ GetCategoryUrls
  \/ GetProductInfo
  \/ GetProductSalesHistory
  \/ ProductInfoToDataframe
  \/ SalesHistoryToDataframe
  \/ \E i \in 1..Len(fetch.fut) : Worker(i)
  \/ FetchReturn

Spec == Init /\ [][Next]_vars

\* The class with the four accessors read as plain fields (spec, section 9):
\* the class namespace binds no property.
InitFields == InitWith({})

\* ------------------------------------------------------------- claims
\* Exceptions a handler raises because of the request or its response:
\* transport error, invalid JSON, malformed payload shape.
RequestFailures == { "ConnectionError", "JSONDecodeError", "KeyError", "IndexError" }

\* A fetch has returned to its caller and nothing was called since.
Returned ==
  /\ fetch.handler # "none"
  /\ Free
  /\ ret.op = Method(fetch.handler)

Failed(i) == fetch.fut[i] \notin { "ok", "pending" }

ListingValid ==
  /\ listing.status = "ok"
  /\ PageOf(listing.lastPage).exc = "none"

RECURSIVE RowsByDocument(_, _)
RowsByDocument(docs, srcs) ==
  IF docs = << >> THEN << >>
  ELSE [ i \in 1..Len(docs[1].ProductActivity) |->
           [productId |-> Split(srcs[1], "/")[ProductIdSegment + 1],
            v |-> docs[1].ProductActivity[i].v] ]
       \o RowsByDocument(Tail(docs), Tail(srcs))

\* Every activity entry after a document's first carries no productId.
OnlyInjected(docs) ==
  \A k \in 1..Len(docs) :
    \A i \in 2..Len(docs[k].ProductActivity) : docs[k].ProductActivity[i].productId = NaN

RECURSIVE TotalRows(_)
\* Number of activity rows over the accumulated sales documents.
TotalRows(docs) ==
  IF docs = << >> THEN 0 ELSE Len(docs[1].ProductActivity) + TotalRows(Tail(docs))

\* A joined row carries the columns of a product whose id is its productId,
\* or nulls when no product has that id.
JoinedRight(row) ==
  IF \E k \in 1..Len(product_info) : product_info[k].id = row.productId
  THEN \E k \in 1..Len(product_info) :
         /\ product_info[k].id = row.productId
         /\ row.id = product_info[k].id
         /\ row.title = product_info[k].title
  ELSE row.id = NaN /\ row.title = "NaN"

\* C7: main ends with a joined output of as many rows as the accumulated
\* sales documents have activity rows, each row with its product's columns
\* (nulls when no product matches); main fails only on a request,
\* response or projection error.
C7_JoinKeepsEverySalesRow ==
  (driver = "main" /\ pc \in { "done", "raised" }) =>
    IF pc = "done"
    THEN /\ csv.written
         /\ Len(csv.rows) = TotalRows(self._scraped_sales_history)
         /\ \A i \in 1..Len(csv.rows) : JoinedRight(csv.rows[i])
    ELSE ret.exc \in RequestFailures \cup { "ValueError" }

\* Both accumulators exist and are empty.
AccumulatorsEmpty(s) ==
  /\ { "_scraped_products", "_scraped_sales_history" } \subseteq s.set
  /\ s._scraped_products = << >>
  /\ s._scraped_sales_history = << >>

\* C8: creating a session succeeds and leaves both accumulators empty;
\* reset_scrape succeeds, leaves both accumulators empty and changes
\* neither the headers nor the two endpoints.
C8_CreateAndResetSucceed ==
  [][ /\ (Create \/ (pc = "start" /\ main))
           => (ret'.exc = "none" /\ AccumulatorsEmpty(self'))
      /\ ResetScrape
           => /\ ret'.exc = "none"
              /\ AccumulatorsEmpty(self')
              /\ self'.headers = self.headers
              /\ self'.api = self.api
              /\ self'.sales_api = self.sales_api ]_vars

\* C9: whenever the calling thread is outside a fetch (and so may read an
\* accumulator or start the next fetch), every handler invocation that was
\* dispatched has finished.
C9_ReturnAfterAllHandlers ==
  Free => \A i \in 1..Len(fetch.fut) : fetch.fut[i] # "pending"

\* C9's case: a fetch over several urls has returned to its caller.
C9_FetchReturned ==
  /\ Returned
  /\ Len(fetch.fut) >= 2

\* ------------------------------------------------------------- plain fields
\* The methods' bodies with the accessors read as plain fields, one part of
\* the class at a time.  These are not behaviours of the Python 3 program.
NextResolve == Create \/ SetHeaders \/ GetCategoryUrls

NextFetch ==
  \/ Create
  \/ ResetScrape
  \/ GetProductInfo
  \/ GetProductSalesHistory
  \/ ProductInfoToDataframe
  \/ SalesHistoryToDataframe
  \/ \E i \in 1..Len(fetch.fut) : Worker(i)
  \/ FetchReturn

SpecFieldsResolve == (InitFields /\ driver = "client") /\ [][NextResolve]_vars

SpecFieldsFetch == (InitFields /\ driver = "client") /\ [][NextFetch]_vars

SpecFieldsMain == (InitFields /\ driver = "main") /\ [][Next]_vars

\* C4 under SpecFieldsResolve: a call whose listing response is a transport
\* error, no JSON, without the pagination field or without a parsable
\* page= integer raises and returns no url.
C4_Fields_InvalidListingRaises ==
  (ret.op = "get_category_urls" /\ listing.status # "none" /\ ~ListingValid)
    => (ret.exc # "none" /\ category_urls = << >>)

\* C4 under SpecFieldsResolve: get_category_urls leaves the instance, and
\* so both accumulators, unchanged.
C4_Fields_AccumulatorsKept == [][ret'.op = "get_category_urls" => self' = self]_vars

\* C5 under SpecFieldsFetch: every accumulated sales document has, on its
\* first activity entry, the sixth "/"-separated piece of the url it was
\* fetched from.
C5_Fields_InjectedProductId ==
  /\ Len(sales_src) = AccLen(self, "_scraped_sales_history")
  /\ \A k \in 1..Len(sales_src) :
       self._scraped_sales_history[k].ProductActivity[1].productId
         = Split(sales_src[k], "/")[ProductIdSegment + 1]

\* C5 under SpecFieldsFetch: that piece is the product id the url was built
\* from (false for a product id that holds a "/").
C5_Fields_SegmentIsProductId ==
  \A k \in 1..Len(sales_src) :
    \E p \in ProductIds :
      /\ sales_src[k] = SalesUrl(p)
      /\ self._scraped_sales_history[k].ProductActivity[1].productId = p

\* C10 under SpecFieldsFetch: once a fetch has returned, its accumulator
\* has gained one document per handler that succeeded.
C10_Fields_OnePerSuccess ==
  Returned =>
    AccLen(self, Accumulator(fetch.handler))
      = fetch.base + Cardinality({ i \in 1..Len(fetch.fut) : fetch.fut[i] = "ok" })

\* C10 under SpecFieldsFetch: a handler that fails leaves the instance
\* unchanged.
C10_Fields_FailureAppendsNothing ==
  [][ \A i \in 1..Len(fetch.fut) :
        (fetch.fut[i] = "pending" /\ fetch' # fetch /\ Len(fetch'.fut) = Len(fetch.fut)
           /\ fetch'.fut[i] \notin { "ok", "pending" })
          => self' = self ]_vars

\* C2 under SpecFieldsMain: main does not write the csv after a fetch in
\* which a handler failed.
C2_Fields_NoCsvAfterFailure ==
  ~(csv.written /\ \E i \in 1..Len(fetch.fut) : Failed(i))

\* C7 under SpecFieldsMain, for product tables without a repeated id.
C7_Fields_UniqueIds ==
  (\A i, j \in 1..Len(product_info) : product_info[i].id = product_info[j].id => i = j)
    => C7_JoinKeepsEverySalesRow
====
